---- MODULE Spec2Model ----
(***************************************************************************)
(* Anime/Character API (src/main.py): two in-memory dictionaries, animes   *)
(* and characters, behind FastAPI handlers whose request bodies are        *)
(* validated by the pydantic models of src/SimpleMicroservices/models.     *)
(*                                                                         *)
(* A JSON object (and a Python dict) is a function from the keys that are  *)
(* present to their values.  A pydantic model instance is the function of  *)
(* all its fields; the keys of the body it was built from are its          *)
(* fields_set (what model_dump(exclude_unset=True) keeps).                 *)
(***************************************************************************)
EXTENDS Integers, Sequences, FiniteSets, TLC

\* characters, animes: the two dictionaries of main.py
\* clock:    what datetime.utcnow() returns
\* response: the response to the last request handled
\* threads:  the handlers the thread pool is running, each with its line
\* before:   characters when the running handlers were entered
VARIABLES characters, animes, clock, response, threads, before

vars == <<characters, animes, clock, response, threads, before>>

(***************************************************************************)
(* Bounds                                                                  *)
(***************************************************************************)
\* most records the two stores hold together
MaxRecords == 2

(***************************************************************************)
(* Values                                                                  *)
(***************************************************************************)
\* the strings request bodies and query parameters carry
Str == {"s1", "s2"}
\* Python None / JSON null
None == "None"
\* a JSON value of the wrong type for every field (a number where a string
\* is expected, a string that is no UUID, a string where a list is expected)
Bad == "Bad"
\* the UUIDs of the model: what clients send and what uuid4() returns
UUIDs == {"u1", "u2"}

(***************************************************************************)
(* Python dict: insertion-ordered key/value entries                        *)
(***************************************************************************)
EmptyDict == << >>

DictKeys(d) == {d[i].key : i \in 1..Len(d)}

DictHas(d, k) == k \in DictKeys(d)

DictIndex(d, k) == CHOOSE i \in 1..Len(d) : d[i].key = k

DictGet(d, k) == d[DictIndex(d, k)].value

\* d[k] = v on a list of pairs: the entry always goes last
DictSet_append(d, k, v) == Append(d, [key |-> k, value |-> v])

\* d[k] = v: an existing key keeps its position, a new key goes last
DictSet(d, k, v) ==
    IF DictHas(d, k)
    THEN [d EXCEPT ![DictIndex(d, k)] = [key |-> k, value |-> v]]
    ELSE Append(d, [key |-> k, value |-> v])

\* list(d.values())
DictValues(d) == [i \in 1..Len(d) |-> d[i].value]

\* a.update(b) on plain dicts (functions from present keys to values)
Merged(a, b) ==
    [k \in DOMAIN a \cup DOMAIN b |-> IF k \in DOMAIN b THEN b[k] ELSE a[k]]

Restrict(d, S) == [k \in DOMAIN d \cap S |-> d[k]]

Has(d, k) == k \in DOMAIN d

(***************************************************************************)
(* pydantic field rules                                                    *)
(***************************************************************************)
\* name: str = Field(...): the key must be present and hold a string
RequiredStr(d, k) == Has(d, k) /\ d[k] \in Str

\* alias: Optional[str] = Field(None): absent, null or a string
OptionalStr(d, k) == Has(d, k) => d[k] \in Str \cup {None}

\* gender: str = Field(None): the default None is not validated, but a value
\* that is given must be a string
DefaultedStr(d, k) == Has(d, k) => d[k] \in Str

\* id: UUID = Field(default_factory=uuid4)
DefaultedUUID(d, k) == Has(d, k) => d[k] \in UUIDs

Default(d, k, dflt) == IF Has(d, k) THEN d[k] ELSE dflt

(***************************************************************************)
(* models/characters.py                                                    *)
(***************************************************************************)
CharacterBaseFields == {"id", "name", "role", "alias", "gender", "ability"}

CharacterUpdateFields == {"name", "role", "alias", "gender", "ability"}

\* does d validate as a CharacterBase / CharacterCreate (unknown keys are
\* ignored: no model sets extra="forbid")
CharacterBaseValid(d) ==
    /\ DefaultedUUID(d, "id")
    /\ RequiredStr(d, "name")
    /\ RequiredStr(d, "role")
    /\ OptionalStr(d, "alias")
    /\ DefaultedStr(d, "gender")
    /\ RequiredStr(d, "ability")

\* the CharacterBase instance built from a valid d; uuid is what uuid4()
\* returns if the default factory is called
CharacterBase(d, uuid) ==
    [id      |-> Default(d, "id", uuid),
     name    |-> d.name,
     role    |-> d.role,
     alias   |-> Default(d, "alias", None),
     gender  |-> Default(d, "gender", None),
     ability |-> d.ability]

CharacterUpdateValid(d) ==
    /\ OptionalStr(d, "name")
    /\ OptionalStr(d, "role")
    /\ OptionalStr(d, "alias")
    /\ DefaultedStr(d, "gender")
    /\ OptionalStr(d, "ability")

\* update.model_dump(exclude_unset=True) of a model that keeps every key of
\* the body
CharacterUpdateDump_all(d) == d

\* update.model_dump(exclude_unset=True): the fields the body set
CharacterUpdateDump(d) == Restrict(d, CharacterUpdateFields)

\* CharacterRead(**d): CharacterBase plus the two timestamps, which default
\* to datetime.utcnow()
CharacterReadValid(d) == CharacterBaseValid(d)

\* CharacterRead(**d) that stamps updated_at anew each time it is built
CharacterRead_refreshing(d, uuid, now) ==
    [id         |-> Default(d, "id", uuid),
     name       |-> d.name,
     role       |-> d.role,
     alias      |-> Default(d, "alias", None),
     gender     |-> Default(d, "gender", None),
     ability    |-> d.ability,
     created_at |-> Default(d, "created_at", now),
     updated_at |-> now]

CharacterRead(d, uuid, now) ==
    [id         |-> Default(d, "id", uuid),
     name       |-> d.name,
     role       |-> d.role,
     alias      |-> Default(d, "alias", None),
     gender     |-> Default(d, "gender", None),
     ability    |-> d.ability,
     created_at |-> Default(d, "created_at", now),
     updated_at |-> Default(d, "updated_at", now)]

(***************************************************************************)
(* models/anime.py                                                         *)
(***************************************************************************)
\* the JSON value under "characters": a list of objects, null, or a value of
\* another type
ListValue(items) == [kind |-> "list", items |-> items]

NoneValue == [kind |-> "none", items |-> << >>]

BadValue == [kind |-> "bad", items |-> << >>]

AnimeBaseFields ==
    {"title", "genre", "seasons", "rating", "status", "streaming", "characters"}

AnimeUpdateFields == AnimeBaseFields

\* characters: List[CharacterBase]
CharactersValid(v) ==
    /\ v.kind = "list"
    /\ \A i \in 1..Len(v.items) : CharacterBaseValid(v.items[i])

\* does d validate as an AnimeBase / AnimeCreate
AnimeBaseValid(d) ==
    /\ RequiredStr(d, "title")
    /\ RequiredStr(d, "genre")
    /\ RequiredStr(d, "seasons")
    /\ OptionalStr(d, "rating")
    /\ RequiredStr(d, "status")
    /\ RequiredStr(d, "streaming")
    /\ (Has(d, "characters") => CharactersValid(d.characters))

\* the list of CharacterBase instances built from d["characters"] (default:
\* the empty list); uuids[i] is what uuid4() returns for the i-th element
EmbeddedCharacters(d, uuids) ==
    IF Has(d, "characters")
    THEN [i \in 1..Len(d.characters.items) |->
             CharacterBase(d.characters.items[i], uuids[i])]
    ELSE << >>

\* the AnimeBase / AnimeCreate instance built from a valid d
AnimeBase(d, uuids) ==
    [title      |-> d.title,
     genre      |-> d.genre,
     seasons    |-> d.seasons,
     rating     |-> Default(d, "rating", None),
     status     |-> d.status,
     streaming  |-> d.streaming,
     characters |-> EmbeddedCharacters(d, uuids)]

\* model_dump() of an AnimeCreate or AnimeRead instance: every field, the
\* embedded characters as dicts of all their fields
AnimeDump(m) == [m EXCEPT !.characters = ListValue(m.characters)]

\* characters: Optional[List[CharacterBase]]
AnimeUpdateValid(d) ==
    /\ OptionalStr(d, "title")
    /\ OptionalStr(d, "genre")
    /\ OptionalStr(d, "seasons")
    /\ OptionalStr(d, "rating")
    /\ OptionalStr(d, "status")
    /\ OptionalStr(d, "streaming")
    /\ (Has(d, "characters") =>
            d.characters.kind = "none" \/ CharactersValid(d.characters))

\* update.model_dump(exclude_unset=True): the fields the body set and, of
\* each embedded character, the fields its object set
AnimeUpdateDump(d) ==
    [k \in DOMAIN d \cap AnimeUpdateFields |->
        IF k = "characters" /\ d[k].kind = "list"
        THEN ListValue([i \in 1..Len(d[k].items) |->
                           Restrict(d[k].items[i], CharacterBaseFields)])
        ELSE d[k]]

\* AnimeRead(**d): AnimeBase plus id (default uuid4()) and the timestamps
AnimeReadValid(d) == AnimeBaseValid(d) /\ DefaultedUUID(d, "id")

AnimeRead(d, uuid, uuids, now) ==
    [id         |-> Default(d, "id", uuid),
     title      |-> d.title,
     genre      |-> d.genre,
     seasons    |-> d.seasons,
     rating     |-> Default(d, "rating", None),
     status     |-> d.status,
     streaming  |-> d.streaming,
     characters |-> EmbeddedCharacters(d, uuids),
     created_at |-> Default(d, "created_at", now),
     updated_at |-> Default(d, "updated_at", now)]

(***************************************************************************)
(* HTTP responses                                                          *)
(***************************************************************************)
\* a response: the status code, the error detail (if any) and the records of
\* the JSON body (one record for a single resource, the list for a listing)
Response(status, body) == [status |-> status, detail |-> "", body |-> body]

\* fastapi.HTTPException(status_code, detail)
HTTPException(status, detail) == [status |-> status, detail |-> detail, body |-> << >>]

\* FastAPI rejects a body that does not validate, before the handler runs
RequestValidationError == HTTPException(422, "Unprocessable Entity")

\* an exception the handler does not catch, which the server answers with
\* 500; detail keeps the exception's class: the pydantic ValidationError of
\* CharacterRead(**...) or AnimeRead(**...), the AttributeError of p.addresses
InternalServerError(exception) == HTTPException(500, exception)

NoResponse == HTTPException(0, "")

(***************************************************************************)
(* What handling a request leaves behind: the two dictionaries, the clock  *)
(* and the response                                                        *)
(***************************************************************************)
Outcome(c, a, t, r) == [characters |-> c, animes |-> a, clock |-> t, response |-> r]

\* the handler answers r and touches nothing
Answer(r) == Outcome(characters, animes, clock, r)

\* datetime.utcnow() is read off a logical clock that every insertion advances
Advance(t) == t + 1

(***************************************************************************)
(* Character endpoints                                                     *)
(***************************************************************************)
\* POST /characters without the check of line 62: the new record replaces
\* the one stored under the same id
create_character_upsert(body, uuid) ==
    IF ~CharacterBaseValid(body) THEN Answer(RequestValidationError)
    ELSE LET character == CharacterBase(body, uuid) IN
         IF ~CharacterReadValid(character)
         THEN Answer(InternalServerError("ValidationError"))
         ELSE LET stored == DictSet(characters, character.id,
                                    CharacterRead(character, uuid, clock))
              IN  Outcome(stored, animes, Advance(clock),
                          Response(201, <<DictGet(stored, character.id)>>))

\* POST /characters
create_character(body, uuid) ==
    IF ~CharacterBaseValid(body) THEN Answer(RequestValidationError)
    ELSE LET character == CharacterBase(body, uuid) IN
         IF DictHas(characters, character.id)
         THEN Answer(HTTPException(400, "Character with this ID already exists"))
         ELSE IF ~CharacterReadValid(character) THEN Answer(InternalServerError("ValidationError"))
         ELSE LET stored == DictSet(characters, character.id,
                                    CharacterRead(character, uuid, clock))
              IN  Outcome(stored, animes, Advance(clock),
                          Response(201, <<DictGet(stored, character.id)>>))

\* one "if f is not None: results = [a for a in results if a.f == f]"
Filtered(results, q, f) ==
    IF Has(q, f) THEN SelectSeq(results, LAMBDA a : a[f] = q[f]) ELSE results

\* GET /characters that forgets the alias filter
CharacterResults_no_alias(d, q) ==
    LET r0 == DictValues(d)
        r1 == Filtered(r0, q, "name")
        r2 == Filtered(r1, q, "role")
        r4 == Filtered(r2, q, "gender")
        r5 == Filtered(r4, q, "ability")
    IN  r5

\* the result list of GET /characters for the query parameters q
CharacterResults(d, q) ==
    LET r0 == DictValues(d)
        r1 == Filtered(r0, q, "name")
        r2 == Filtered(r1, q, "role")
        r3 == Filtered(r2, q, "alias")
        r4 == Filtered(r3, q, "gender")
        r5 == Filtered(r4, q, "ability")
    IN  r5

\* GET /characters
list_characters(q) == Answer(Response(200, CharacterResults(characters, q)))

\* GET /characters/{character_id}
get_character(character_id) ==
    IF ~DictHas(characters, character_id)
    THEN Answer(HTTPException(404, "character not found"))
    ELSE Answer(Response(200, <<DictGet(characters, character_id)>>))

\* stored.update(update.model_dump(exclude_unset=True))
CharacterMerged(stored, update) == Merged(stored, CharacterUpdateDump(update))

\* the animes with every embedded character of id character_id replaced by
\* the fields of record
Propagated(d, character_id, record) ==
    [i \in 1..Len(d) |->
        [d[i] EXCEPT !.value.characters =
            [j \in 1..Len(@) |->
                IF @[j].id = character_id
                THEN [k \in DOMAIN @[j] |-> record[k]]
                ELSE @[j]]]]

\* PATCH /characters/{character_id} that keeps the embedded copies of the
\* character in step with it
update_character_propagating(character_id, update) ==
    IF ~CharacterUpdateValid(update) THEN Answer(RequestValidationError)
    ELSE IF ~DictHas(characters, character_id)
    THEN Answer(HTTPException(404, "Character not found"))
    ELSE LET stored == CharacterMerged(DictGet(characters, character_id), update) IN
         IF ~CharacterReadValid(stored) THEN Answer(InternalServerError("ValidationError"))
         ELSE LET written == DictSet(characters, character_id,
                                     CharacterRead(stored, character_id, clock))
              IN  Outcome(written,
                          Propagated(animes, character_id, DictGet(written, character_id)),
                          clock,
                          Response(200, <<DictGet(written, character_id)>>))

\* PATCH /characters/{character_id}
update_character(character_id, update) ==
    IF ~CharacterUpdateValid(update) THEN Answer(RequestValidationError)
    ELSE IF ~DictHas(characters, character_id)
    THEN Answer(HTTPException(404, "Character not found"))
    ELSE LET stored == CharacterMerged(DictGet(characters, character_id), update) IN
         IF ~CharacterReadValid(stored) THEN Answer(InternalServerError("ValidationError"))
         ELSE LET written == DictSet(characters, character_id,
                                     CharacterRead(stored, character_id, clock))
              IN  Outcome(written, animes, clock,
                          Response(200, <<DictGet(written, character_id)>>))

(***************************************************************************)
(* Anime endpoints                                                         *)
(***************************************************************************)
\* POST /animes
create_anime(body, uuid, uuids) ==
    IF ~AnimeBaseValid(body) THEN Answer(RequestValidationError)
    ELSE LET anime == AnimeDump(AnimeBase(body, uuids)) IN
         IF ~AnimeReadValid(anime) THEN Answer(InternalServerError("ValidationError"))
         ELSE LET anime_read == AnimeRead(anime, uuid, uuids, clock) IN
              Outcome(characters, DictSet(animes, anime_read.id, anime_read),
                      Advance(clock), Response(201, <<anime_read>>))

\* any(char.role == role for char in p.characters)
AnyRole(p, role) == \E i \in 1..Len(p.characters) : p.characters[i].role = role

\* the results of GET /animes when the gender filter is reached
AnimeResults(d, q) ==
    LET r0 == DictValues(d)
        r1 == Filtered(r0, q, "title")
        r2 == Filtered(r1, q, "genre")
        r3 == Filtered(r2, q, "seasons")
        r4 == Filtered(r3, q, "rating")
        r5 == Filtered(r4, q, "status")
        r6 == Filtered(r5, q, "streaming")
        r7 == IF Has(q, "role")
              THEN SelectSeq(r6, LAMBDA p : AnyRole(p, q.role))
              ELSE r6
    IN  r7

\* p.addresses raises whether or not there is a p
RaisesAttributeError_always(results, attr) == TRUE

\* p.addresses raises AttributeError for the first p of results: AnimeRead
\* has no such attribute
RaisesAttributeError(results, attr) ==
    \E i \in 1..Len(results) : ~Has(results[i], attr)

\* any(char.gender == gender for char in p.addresses)
AnyGender(p, gender) == \E i \in 1..Len(p.addresses) : p.addresses[i].gender = gender

\* GET /animes
list_animes(q) ==
    LET results == AnimeResults(animes, q) IN
    IF ~Has(q, "gender") THEN Answer(Response(200, results))
    ELSE IF RaisesAttributeError(results, "addresses")
    THEN Answer(InternalServerError("AttributeError"))
    ELSE Answer(Response(200, SelectSeq(results, LAMBDA p : AnyGender(p, q.gender))))

\* GET /animes/{anime_id}
get_anime(anime_id) ==
    IF ~DictHas(animes, anime_id)
    THEN Answer(HTTPException(404, "Anime not found"))
    ELSE Answer(Response(200, <<DictGet(animes, anime_id)>>))

\* stored.update(update.model_dump(exclude_unset=True))
AnimeMerged(stored, update) == Merged(AnimeDump(stored), AnimeUpdateDump(update))

\* PATCH /animes/{anime_id} that builds the record before it looks the id up
\* (an absent id merges into an empty dict)
update_anime_upsert(anime_id, update, uuids) ==
    IF ~AnimeUpdateValid(update) THEN Answer(RequestValidationError)
    ELSE LET stored == IF DictHas(animes, anime_id)
                       THEN AnimeMerged(DictGet(animes, anime_id), update)
                       ELSE AnimeUpdateDump(update)
         IN
         IF ~AnimeReadValid(stored) THEN Answer(InternalServerError("ValidationError"))
         ELSE IF ~DictHas(animes, anime_id)
         THEN Answer(HTTPException(404, "Anime not found"))
         ELSE LET written == DictSet(animes, anime_id,
                                     AnimeRead(stored, anime_id, uuids, clock))
              IN  Outcome(characters, written, clock,
                          Response(200, <<DictGet(written, anime_id)>>))

\* PATCH /animes/{anime_id}
update_anime(anime_id, update, uuids) ==
    IF ~AnimeUpdateValid(update) THEN Answer(RequestValidationError)
    ELSE IF ~DictHas(animes, anime_id)
    THEN Answer(HTTPException(404, "Anime not found"))
    ELSE LET stored == AnimeMerged(DictGet(animes, anime_id), update) IN
         IF ~AnimeReadValid(stored) THEN Answer(InternalServerError("ValidationError"))
         ELSE LET written == DictSet(animes, anime_id,
                                     AnimeRead(stored, anime_id, uuids, clock))
              IN  Outcome(characters, written, clock,
                          Response(200, <<DictGet(written, anime_id)>>))

(***************************************************************************)
(* Requests                                                                *)
(***************************************************************************)
With(o, k, v) == [x \in DOMAIN o \cup {k} |-> IF x = k THEN v ELSE o[x]]

Without(o, k) == [x \in DOMAIN o \ {k} |-> o[x]]

\* the JSON objects over the keys K whose value under k is in V(k)
Objects(K, V(_)) ==
    UNION {{o \in [S -> UNION {V(k) : k \in S}] : \A k \in S : o[k] \in V(k)} :
           S \in SUBSET K}

\* the set S with its elements enumerated once
Enumerated(S) == {x : x \in S}

\* the objects with at most one key
AtMostOneKey(K, V(_)) == UNION {Objects({k}, V) : k \in K}

\* a complete body and the bodies one key away from it: a key left out, or a
\* key (of the body or of Extra) holding another value
Variations(nominal, Extra, V(_)) ==
    {nominal}
    \cup {Without(nominal, k) : k \in DOMAIN nominal}
    \cup UNION {{With(nominal, k, v) : v \in V(k)} : k \in DOMAIN nominal \cup Extra}

NominalCharacter ==
    [name |-> "s1", role |-> "s1", alias |-> "s1", gender |-> "s1", ability |-> "s1"]

\* what a body may hold under each key: name stands for the required
\* strings, alias for the optional one, gender for the defaulted one;
\* "nickname" is no field of any schema, "id" none of the update schemas
CharacterValues(k) ==
    CASE k = "id" -> UUIDs \cup {Bad}
      [] k = "name" -> Str \cup {None, Bad}
      [] k = "role" -> {"s1"}
      [] k = "alias" -> {"s1", None}
      [] k = "gender" -> {"s1", None}
      [] k = "ability" -> {"s1"}
      [] k = "nickname" -> {"s1"}

\* POST /characters bodies, without and with a client-chosen id
CharacterCreateBodies ==
    Enumerated(
        Variations(NominalCharacter, {"nickname"}, CharacterValues)
        \cup {With(o, "id", u) :
                 o \in {NominalCharacter,
                        With(NominalCharacter, "name", "s2"),
                        Without(NominalCharacter, "gender"),
                        Without(NominalCharacter, "name")},
                 u \in CharacterValues("id")})

\* PATCH /characters bodies: at most one field, without and with an "id" key
CharacterUpdateBodies ==
    Enumerated(
        AtMostOneKey(CharacterUpdateFields, CharacterValues)
        \cup {With(o, "id", "u1") : o \in {<< >>, [name |-> "s2"]}})

CharacterFilters == {"name", "role", "alias", "gender", "ability"}

\* the strings a query may ask for: both for the fields whose stored values
\* vary, one for the others
FilterValues(k) == IF k \in {"name", "alias", "title"} THEN Str ELSE {"s1"}

\* GET /characters query strings: name with any other filter, or fewer
CharacterQueries ==
    Enumerated(UNION {Objects({"name", f}, FilterValues) : f \in CharacterFilters})

\* embedded characters of an anime body
EmbeddedBodies ==
    {With(NominalCharacter, "id", "u1"),
     Without(NominalCharacter, "gender"),
     Without(NominalCharacter, "name")}

CharacterLists ==
    {<< >>}
    \cup {<<e>> : e \in EmbeddedBodies}

CharactersValues == {ListValue(l) : l \in CharacterLists} \cup {NoneValue, BadValue}

\* rating, the optional field, is left out
NominalAnime ==
    [title |-> "s1", genre |-> "s1", seasons |-> "s1", status |-> "s1", streaming |-> "s1"]

AnimeValues(k) ==
    CASE k = "id" -> {"u1"}
      [] k = "title" -> Str \cup {None, Bad}
      [] k = "rating" -> {None}
      [] OTHER -> {"s1"}

\* POST /animes bodies: one key off the nominal body and no characters, or
\* the nominal body with a characters value
AnimeCreateBodies ==
    Enumerated(
        Variations(NominalAnime, {"id"}, AnimeValues)
        \cup {With(NominalAnime, "characters", c) : c \in CharactersValues})

\* PATCH /animes bodies: at most one field, without and with an "id" key
AnimeUpdateBodies ==
    Enumerated(
        AtMostOneKey(AnimeUpdateFields \ {"characters"}, AnimeValues)
        \cup {With(<< >>, "characters", c) : c \in CharactersValues}
        \cup {With(o, "id", "u1") : o \in {<< >>, [title |-> "s2"]}})

AnimeFilters ==
    {"title", "genre", "seasons", "rating", "status", "streaming", "role", "gender"}

\* GET /animes query strings: one filter or none, without and with gender
AnimeQueries ==
    Enumerated(UNION {Objects({f, "gender"}, FilterValues) : f \in AnimeFilters})

\* what uuid4() may return for a body without "id": an identifier that is
\* not in use (with "id" the factory is not called)
UUID4(body, used) == IF Has(body, "id") THEN {None} ELSE UUIDs \ used

\* what uuid4() returns for a new anime. No client chooses or sees an anime
\* identifier before uuid4() has returned it, so which unused one it returns
\* makes no difference: the model hands them out in the order of AnimeUUIDs
AnimeUUIDs == <<"u1", "u2">>

AnimeUUID4(used) ==
    {AnimeUUIDs[i] : i \in {j \in 1..Len(AnimeUUIDs) :
        /\ AnimeUUIDs[j] \notin used
        /\ \A k \in 1..(j - 1) : AnimeUUIDs[k] \in used}}

\* what uuid4() returns for the elements of an embedded list that supply no
\* id: an identifier the list does not supply, again the first such one (an
\* embedded id is looked up nowhere, so which one makes no difference)
EmbeddedUUIDs(body) ==
    LET items == IF Has(body, "characters") THEN body.characters.items ELSE << >>
        given == {items[i].id : i \in {j \in 1..Len(items) : Has(items[j], "id")}}
    IN  {u \in [1..Len(items) -> UUIDs \cup {None}] :
            \A i \in 1..Len(items) :
                IF Has(items[i], "id") THEN u[i] = None
                ELSE u[i] \in AnimeUUID4(given)}

(***************************************************************************)
(* The service                                                             *)
(***************************************************************************)
\* the worker threads of the pool that runs the handlers (all of them are
\* plain def functions)
Threads == {"t1", "t2"}

NoRequest == [op |-> "none"]

\* a thread that runs no handler
Idle == [request |-> NoRequest, line |-> 0, stored |-> << >>, response |-> NoResponse]

Init ==
    /\ characters = EmptyDict
    /\ animes = EmptyDict
    /\ clock = 0
    /\ response = NoResponse
    /\ threads = [t \in Threads |-> Idle]
    /\ before = EmptyDict

\* the request is handled, from its first line to its last with no other
\* request in between: its outcome becomes the state
Handled(o) ==
    /\ characters' = o.characters
    /\ animes' = o.animes
    /\ clock' = o.clock
    /\ response' = o.response
    /\ UNCHANGED <<threads, before>>

\* the model stops inserting once the two stores hold MaxRecords records
Full == Len(characters) + Len(animes) >= MaxRecords

Inserts(o) == Len(o.characters) + Len(o.animes) > Len(characters) + Len(animes)

CreateCharacter ==
    \E body \in CharacterCreateBodies :
        \E uuid \in UUID4(body, DictKeys(characters)) :
            /\ ~(Full /\ Inserts(create_character(body, uuid)))
            /\ Handled(create_character(body, uuid))

ListCharacters == \E q \in CharacterQueries : Handled(list_characters(q))

GetCharacter == \E character_id \in UUIDs : Handled(get_character(character_id))

UpdateCharacter ==
    \E character_id \in UUIDs, update \in CharacterUpdateBodies :
        Handled(update_character(character_id, update))

CreateAnime ==
    \E body \in AnimeCreateBodies :
        \E uuid \in AnimeUUID4(DictKeys(animes)), uuids \in EmbeddedUUIDs(body) :
            /\ ~(Full /\ Inserts(create_anime(body, uuid, uuids)))
            /\ Handled(create_anime(body, uuid, uuids))

ListAnimes == \E q \in AnimeQueries : Handled(list_animes(q))

GetAnime == \E anime_id \in UUIDs : Handled(get_anime(anime_id))

UpdateAnime ==
    \E anime_id \in UUIDs, update \in AnimeUpdateBodies :
        \E uuids \in EmbeddedUUIDs(update) :
            Handled(update_anime(anime_id, update, uuids))

Next ==
    \/ CreateCharacter
    \/ ListCharacters
    \/ GetCharacter
    \/ UpdateCharacter
    \/ CreateAnime
    \/ ListAnimes
    \/ GetAnime
    \/ UpdateAnime

Spec == Init /\ [][Next]_vars

(***************************************************************************)
(* The character handlers line by line.  Each thread of the pool runs one  *)
(* handler; a step is one line of main.py, which reads or writes the       *)
(* shared dict once.  A thread record holds the request, the line it is    *)
(* about to run (0 when it runs none), the local variable stored and the   *)
(* response.                                                               *)
(***************************************************************************)
\* requests that pass validation: two creates under one id, and updates of
\* that id that set different fields
ConcRequests ==
    {[op |-> "create_character", body |-> With(NominalCharacter, "id", "u1")],
     [op |-> "create_character",
      body |-> With(With(NominalCharacter, "name", "s2"), "id", "u1")],
     [op |-> "update_character", character_id |-> "u1", update |-> [name |-> "s2"]],
     [op |-> "update_character", character_id |-> "u1", update |-> [alias |-> None]]}

\* the thread enters the handler of the request
Started(request) ==
    [request  |-> request,
     line     |-> IF request.op = "create_character" THEN 62 ELSE 98,
     stored   |-> << >>,
     response |-> NoResponse]

\* raise, or return: the thread leaves the handler with the response
Returned(th, r) == [th EXCEPT !.line = 0, !.response = r]

\* the thread th runs its line on the dict store
Step(store, th) ==
    LET request == th.request IN
    CASE th.line = 62 ->
            IF DictHas(store, request.body.id)
            THEN [store  |-> store,
                  thread |-> Returned(th, HTTPException(400,
                                 "Character with this ID already exists"))]
            ELSE [store |-> store, thread |-> [th EXCEPT !.line = 64]]
      [] th.line = 64 ->
            LET character == CharacterBase(request.body, None) IN
            IF ~CharacterReadValid(character)
            THEN [store  |-> store,
                  thread |-> Returned(th, InternalServerError("ValidationError"))]
            ELSE [store  |-> DictSet(store, character.id,
                                     CharacterRead(character, None, clock)),
                  thread |-> [th EXCEPT !.line = 65]]
      [] th.line = 65 ->
            [store  |-> store,
             thread |-> Returned(th, Response(201, <<DictGet(store, request.body.id)>>))]
      [] th.line = 98 ->
            IF ~DictHas(store, request.character_id)
            THEN [store  |-> store,
                  thread |-> Returned(th, HTTPException(404, "Character not found"))]
            ELSE [store |-> store, thread |-> [th EXCEPT !.line = 100]]
      [] th.line = 100 ->
            [store  |-> store,
             thread |-> [th EXCEPT !.line = 102,
                                   !.stored = CharacterMerged(
                                       DictGet(store, request.character_id),
                                       request.update)]]
      [] th.line = 102 ->
            IF ~CharacterReadValid(th.stored)
            THEN [store  |-> store,
                  thread |-> Returned(th, InternalServerError("ValidationError"))]
            ELSE [store  |-> DictSet(store, request.character_id,
                                     CharacterRead(th.stored, request.character_id, clock)),
                  thread |-> [th EXCEPT !.line = 103]]
      [] th.line = 103 ->
            [store  |-> store,
             thread |-> Returned(th, Response(200,
                            <<DictGet(store, request.character_id)>>))]

\* the handler run from the thread's line to its end with no other thread
\* in between
RECURSIVE Run(_, _)
Run(store, th) ==
    IF th.line = 0 THEN [store |-> store, thread |-> th]
    ELSE Run(Step(store, th).store, Step(store, th).thread)

\* two requests arrive while no handler runs
Receive ==
    /\ \A t \in Threads : threads[t].line = 0
    /\ \E requests \in [Threads -> ConcRequests] :
          threads' = [t \in Threads |-> Started(requests[t])]
    /\ before' = characters
    /\ UNCHANGED <<characters, animes, clock, response>>

\* thread t runs the line it is at
Runs(t) ==
    /\ characters' = Step(characters, threads[t]).store
    /\ threads' = [threads EXCEPT ![t] = Step(characters, threads[t]).thread]
    /\ UNCHANGED <<animes, clock, response, before>>

\* if character.id in characters
CheckConflict(t) ==
    /\ threads[t].line = 62
    /\ Runs(t)

\* characters[character.id] = CharacterRead(**character.model_dump())
Insert(t) ==
    /\ threads[t].line = 64
    /\ Runs(t)

\* return characters[character.id]
ReturnCreated(t) ==
    /\ threads[t].line = 65
    /\ Runs(t)

\* if character_id not in characters
CheckFound(t) ==
    /\ threads[t].line = 98
    /\ Runs(t)

\* stored = characters[character_id].model_dump(); stored.update(...)
Merge(t) ==
    /\ threads[t].line = 100
    /\ Runs(t)

\* characters[character_id] = CharacterRead(**stored)
Replace(t) ==
    /\ threads[t].line = 102
    /\ Runs(t)

\* return characters[character_id]
ReturnUpdated(t) ==
    /\ threads[t].line = 103
    /\ Runs(t)

NextConc ==
    \/ Receive
    \/ \E t \in Threads : CheckConflict(t)
    \/ \E t \in Threads : Insert(t)
    \/ \E t \in Threads : ReturnCreated(t)
    \/ \E t \in Threads : CheckFound(t)
    \/ \E t \in Threads : Merge(t)
    \/ \E t \in Threads : Replace(t)
    \/ \E t \in Threads : ReturnUpdated(t)

SpecConc == Init /\ [][NextConc]_vars

(***************************************************************************)
(* Properties.  A property of a handler is stated for every request of the *)
(* model's request sets in every reachable state: the outcome of handling  *)
(* the request there is what the service does next.                        *)
(***************************************************************************)
Untouched(o) == o.characters = characters /\ o.animes = animes

Present(d) == {k \in UUIDs : DictHas(d, k)}

Absent(d) == {k \in UUIDs : ~DictHas(d, k)}

\* C1: a POST /characters whose payload (one that validates as a
\* CharacterCreate) carries an id that is a key of characters is answered
\* 400, and leaves every record of characters as it was, adds none, and
\* leaves animes alone.
C1_ConflictLeavesStore ==
    \A body \in CharacterCreateBodies :
        (CharacterBaseValid(body) /\ Has(body, "id") /\ DictHas(characters, body.id)) =>
            \A uuid \in UUID4(body, DictKeys(characters)) :
                LET o == create_character(body, uuid) IN
                /\ o.response.status = 400
                /\ o.response.detail = "Character with this ID already exists"
                /\ Untouched(o)

\* a conflict has been answered while both stores hold a record, the stored
\* character differing from every payload that carries an id
C1_Witness ==
    /\ response.status = 400
    /\ Len(animes) = 1
    /\ Len(characters) = 1
    /\ characters[1].value.alias = None

\* C2: GET and PATCH of an id that is no key of the store are answered 404,
\* whatever the fields of the (validated) update body, and touch neither
\* store; GET of an id that is a key is answered 200 with the stored record
\* and touches neither store.
C2_AbsentIsNotFound ==
    /\ \A id \in Absent(characters) :
          /\ get_character(id) = Answer(HTTPException(404, "character not found"))
          /\ \A update \in CharacterUpdateBodies :
                CharacterUpdateValid(update) =>
                    update_character(id, update)
                        = Answer(HTTPException(404, "Character not found"))
    /\ \A id \in Absent(animes) :
          /\ get_anime(id) = Answer(HTTPException(404, "Anime not found"))
          /\ \A update \in AnimeUpdateBodies :
                AnimeUpdateValid(update) =>
                    \A uuids \in EmbeddedUUIDs(update) :
                        update_anime(id, update, uuids)
                            = Answer(HTTPException(404, "Anime not found"))
    /\ \A id \in Present(characters) :
          get_character(id) = Answer(Response(200, <<DictGet(characters, id)>>))
    /\ \A id \in Present(animes) :
          get_anime(id) = Answer(Response(200, <<DictGet(animes, id)>>))

\* a PATCH of an absent character has been answered 404 while each store
\* holds a record
C2_Witness ==
    /\ response = HTTPException(404, "Character not found")
    /\ Len(characters) = 1
    /\ Len(animes) = 1

\* the keys of a dictionary in their order
KeyOrder(d) == [i \in 1..Len(d) |-> d[i].key]

\* every entry but the one under id is what it was, and no key came or went
OthersKept(d, e, id) ==
    /\ KeyOrder(e) = KeyOrder(d)
    /\ \A i \in 1..Len(d) : d[i].key # id => e[i] = d[i]

\* the fields of a record the update body does not set; id and the two
\* timestamps are never set
KeptFields(old, update, Fields) == DOMAIN old \ (DOMAIN update \cap Fields)

C4_IdsUniqueAndStable ==
    [][ /\ Cardinality(DictKeys(characters')) = Len(characters')
        /\ \A i \in 1..Len(characters') : characters'[i].value.id = characters'[i].key
        /\ (response'.status = 201 /\ characters' # characters) =>
              ~DictHas(characters, response'.body[1].id)
        /\ \A k \in DictKeys(characters) :
              /\ DictHas(characters', k)
              /\ DictGet(characters', k).id = k
              /\ get_character(k)'.response.status = 200
              /\ get_character(k)'.response.body[1].id = k ]_vars

\* two characters are stored and the later one has been updated
C4_Witness ==
    /\ Len(characters) = 2
    /\ characters[1].value.name = "s2"
    /\ characters[1].value.alias = None
    /\ characters[2].value.alias = None
    /\ characters[2].value.name = "s2"
    /\ response.status = 200
    /\ response.body = <<characters[1].value>>

\* the record matches every filter the query supplies
Matches(record, q) == \A f \in DOMAIN q : record[f] = q[f]

\* C5: GET /characters is answered 200 with exactly the stored characters,
\* in their order, that equal the query in every filter it supplies (all of
\* them for the empty query, none without error when none matches); the
\* result is what filtering by one supplied filter and then by the others
\* gives, in either order; and neither store changes.
C5_ListIsConjunction ==
    \A q \in CharacterQueries :
        LET o == list_characters(q)
            all == DictValues(characters)
        IN  /\ o.response.status = 200
            /\ o.response.body = SelectSeq(all, LAMBDA c : Matches(c, q))
            /\ \A f \in DOMAIN q :
                  LET rest == [g \in DOMAIN q \ {f} |-> q[g]] IN
                  /\ o.response.body
                        = SelectSeq(Filtered(all, q, f), LAMBDA c : Matches(c, rest))
                  /\ o.response.body
                        = Filtered(SelectSeq(all, LAMBDA c : Matches(c, rest)), q, f)
            /\ Untouched(o)
            /\ o.clock = clock

\* a list has returned one of two stored characters that differ in alias
\* only
C5_Witness ==
    /\ Len(characters) = 2
    /\ characters[1].value.alias = "s1"
    /\ characters[2].value.alias = None
    /\ characters[1].value.name = characters[2].value.name
    /\ response = Response(200, <<characters[1].value>>)

\* C6: the characters of an anime are values of the anime record.  No
\* character operation changes animes; a create or update of an anime is
\* answered and stores its embedded characters without regard to the keys
\* and records of characters, which it leaves alone; an update without the
\* characters field keeps the embedded characters.
C6_EmbeddedSnapshot ==
    /\ \A body \in CharacterCreateBodies :
          \A uuid \in UUID4(body, DictKeys(characters)) :
              create_character(body, uuid).animes = animes
    /\ \A id \in UUIDs :
          /\ get_character(id).animes = animes
          /\ \A update \in CharacterUpdateBodies :
                update_character(id, update).animes = animes
    /\ \A q \in CharacterQueries : list_characters(q).animes = animes
    /\ \A body \in AnimeCreateBodies :
          \A uuid \in AnimeUUID4(DictKeys(animes)), uuids \in EmbeddedUUIDs(body) :
              LET o == create_anime(body, uuid, uuids) IN
              /\ o.characters = characters
              /\ (AnimeBaseValid(body) /\ AnimeReadValid(AnimeDump(AnimeBase(body, uuids)))) =>
                    /\ o.response.status = 201
                    /\ o.response.body[1].characters = EmbeddedCharacters(body, uuids)
                    /\ DictGet(o.animes, uuid).characters = EmbeddedCharacters(body, uuids)
    /\ \A id \in Present(animes), update \in AnimeUpdateBodies :
          \A uuids \in EmbeddedUUIDs(update) :
              LET o == update_anime(id, update, uuids) IN
              /\ o.characters = characters
              /\ ~Has(update, "characters") =>
                    DictGet(o.animes, id).characters = DictGet(animes, id).characters

\* an anime embeds a character under the id of a stored character that has
\* since been renamed
C6_Witness ==
    /\ Len(animes) = 1
    /\ Len(characters) = 1
    /\ Len(animes[1].value.characters) = 1
    /\ animes[1].value.characters[1].id = characters[1].key
    /\ animes[1].value.characters[1].name = "s1"
    /\ characters[1].value.name = "s2"
    /\ response.status = 200

\* the fields a character body must hold, gender among them, and the ones an
\* anime body must hold
CharacterRequired == {"name", "role", "gender", "ability"}

AnimeRequired == {"title", "genre", "seasons", "status", "streaming"}

\* a required field is missing from the body, or a field is of a wrong type
\* (null or a non-string under a required field, a non-UUID id)
Malformed(body, Required) ==
    \/ \E k \in Required : ~Has(body, k) \/ body[k] \in {None, Bad}
    \/ Has(body, "id") /\ body.id = Bad

MalformedList(v) ==
    \/ v.kind # "list"
    \/ \E i \in 1..Len(v.items) : Malformed(v.items[i], CharacterRequired)

\* C7: a create whose body lacks a required field (gender among them, in a
\* character body and in a character embedded in an anime body) or holds a
\* wrongly typed one is answered 422 and nothing else, and changes neither
\* store.
C7_MalformedIsRejected ==
    /\ \A body \in CharacterCreateBodies :
          Malformed(body, CharacterRequired) =>
              \A uuid \in UUID4(body, DictKeys(characters)) :
                  create_character(body, uuid) = Answer(RequestValidationError)
    /\ \A body \in AnimeCreateBodies :
          (\/ Malformed(body, AnimeRequired)
           \/ Has(body, "characters") /\ MalformedList(body.characters)) =>
              \A uuid \in AnimeUUID4(DictKeys(animes)), uuids \in EmbeddedUUIDs(body) :
                  create_anime(body, uuid, uuids) = Answer(RequestValidationError)

\* a POST /characters without gender has been answered 500 by the exception
\* CharacterRead raises in the handler, with a character already stored
C7_Witness ==
    /\ response = InternalServerError("ValidationError")
    /\ Len(characters) = 1
    /\ characters[1].key = "u1"
    /\ create_character(Without(NominalCharacter, "gender"), "u2") = Answer(response)

\* both requests have been answered
AllReturned == \A t \in Threads : threads[t].line = 0 /\ threads[t].request # NoRequest

\* the store and the responses when the request of thread first is handled
\* to its end before the request of thread second is
Serial(first, second) ==
    LET a == Run(before, Started(threads[first].request))
        b == Run(a.store, Started(threads[second].request))
    IN  [store    |-> b.store,
         response |-> [t \in Threads |->
                          IF t = first THEN a.thread.response ELSE b.thread.response]]

Answers == [t \in Threads |-> threads[t].response]

\* C8: when two requests handled at the same time have both been answered,
\* the store and the two responses are what handling one request to its end
\* and then the other gives: two PATCHes of different fields of a record
\* both show in it, and of two creates under one id one is answered 400.
C8_Serializable ==
    AllReturned =>
        \E first \in Threads, second \in Threads :
            /\ first # second
            /\ Serial(first, second).store = characters
            /\ Serial(first, second).response = Answers

\* two PATCHes of the stored character, one of its name and one of its
\* alias, have both been answered 200 and the record shows one of them only
C8_Witness ==
    /\ AllReturned
    /\ DictHas(before, "u1")
    /\ \A t \in Threads : threads[t].request.op = "update_character"
    /\ \A t \in Threads : threads[t].response.status = 200
    /\ threads["t1"].request.update # threads["t2"].request.update
    /\ DictGet(before, "u1").name = "s1"
    /\ DictGet(before, "u1").alias = "s1"
    /\ DictGet(characters, "u1").name = "s2"
    /\ DictGet(characters, "u1").alias = "s1"

\* the anime matches every filter but gender that the query supplies
AnimeMatches(p, q) ==
    \A f \in DOMAIN q \ {"gender"} :
        IF f = "role" THEN \E i \in 1..Len(p.characters) : p.characters[i].role = q.role
        ELSE p[f] = q[f]

Matching(q) == SelectSeq(DictValues(animes), LAMBDA p : AnimeMatches(p, q))

\* C9 as stated: GET /animes ends in the attribute error exactly when the
\* query supplies gender, whatever animes holds and whatever other filters
\* come with it.
C9_GenderAlwaysRaises ==
    \A q \in AnimeQueries :
        Has(q, "gender") <=> list_animes(q).response = InternalServerError("AttributeError")

\* C9 as amended: GET /animes ends in the attribute error (a 500) exactly
\* when the query supplies gender and some stored anime matches the other
\* filters supplied with it; a query with gender that no anime matches, as
\* any query on an empty store, is answered 200 with the empty list, and a
\* query without gender 200 with the matching animes.  No store changes.
C9_GenderRaisesOnMatch ==
    \A q \in AnimeQueries :
        LET o == list_animes(q) IN
        /\ Untouched(o)
        /\ o.response =
              IF Has(q, "gender") /\ Matching(q) # << >>
              THEN InternalServerError("AttributeError")
              ELSE Response(200, Matching(q))

\* the attribute error has been raised over a store of two animes of
\* different titles, where a query for the title of neither is answered 200
C9_Witness ==
    /\ response = InternalServerError("AttributeError")
    /\ Len(animes) = 2
    /\ animes[1].value.title = "s2"
    /\ animes[2].value.title = "s2"
    /\ list_animes([title |-> "s1", gender |-> "s1"]).response = Response(200, << >>)

\* the keys of a body that are no fields of the schema
Unknown(body, Fields) == DOMAIN body \ Fields

Known(body, Fields) == [k \in DOMAIN body \cap Fields |-> body[k]]

\* the bodies that hold a key that is no field of the schema
WithUnknown(Bodies, Fields) == {body \in Bodies : Unknown(body, Fields) # {}}

\* C10 as stated: a create or update whose body holds a key that is no field
\* of the schema is answered 422 and changes no store.
C10_UnknownIsRejected ==
    /\ \A body \in WithUnknown(CharacterCreateBodies, CharacterBaseFields) :
          \A uuid \in UUID4(body, DictKeys(characters)) :
              create_character(body, uuid) = Answer(RequestValidationError)
    /\ \A id \in UUIDs, update \in WithUnknown(CharacterUpdateBodies, CharacterUpdateFields) :
          update_character(id, update) = Answer(RequestValidationError)
    /\ \A body \in WithUnknown(AnimeCreateBodies, AnimeBaseFields) :
          \A uuid \in AnimeUUID4(DictKeys(animes)), uuids \in EmbeddedUUIDs(body) :
              create_anime(body, uuid, uuids) = Answer(RequestValidationError)
    /\ \A id \in UUIDs, update \in WithUnknown(AnimeUpdateBodies, AnimeUpdateFields) :
          \A uuids \in EmbeddedUUIDs(update) :
              update_anime(id, update, uuids) = Answer(RequestValidationError)

\* C10 as amended: a key that is no field of the schema is ignored.  A
\* create or update is answered, and changes the stores, as the same request
\* without the unknown keys is: an "id" in an anime create body does not name
\* the new anime, and an "id" in an update body does not rename the record.
C10_UnknownIsIgnored ==
    /\ \A body \in WithUnknown(CharacterCreateBodies, CharacterBaseFields) :
          \A uuid \in UUID4(body, DictKeys(characters)) :
              create_character(body, uuid)
                  = create_character(Known(body, CharacterBaseFields), uuid)
    /\ \A id \in UUIDs, update \in WithUnknown(CharacterUpdateBodies, CharacterUpdateFields) :
          LET o == update_character(id, update) IN
          /\ o = update_character(id, Known(update, CharacterUpdateFields))
          /\ \A k \in DictKeys(o.characters) : DictGet(o.characters, k).id = k
    /\ \A body \in WithUnknown(AnimeCreateBodies, AnimeBaseFields) :
          \A uuid \in AnimeUUID4(DictKeys(animes)), uuids \in EmbeddedUUIDs(body) :
              LET o == create_anime(body, uuid, uuids) IN
              /\ o = create_anime(Known(body, AnimeBaseFields), uuid, uuids)
              /\ o.response.status = 201 => o.response.body[1].id = uuid
    /\ \A id \in UUIDs, update \in WithUnknown(AnimeUpdateBodies, AnimeUpdateFields) :
          \A uuids \in EmbeddedUUIDs(update) :
              LET o == update_anime(id, update, uuids) IN
              /\ o = update_anime(id, Known(update, AnimeUpdateFields), uuids)
              /\ \A k \in DictKeys(o.animes) : DictGet(o.animes, k).id = k

\* the PATCH of the second character with the body {"id": "u1", "name": "s2"}
\* has been answered 200 with the record renamed and its id kept, and a
\* create of an anime with the body id "u1" would make the anime "u2"
C10_Witness ==
    /\ Len(characters) = 1
    /\ characters[1].key = "u2"
    /\ characters[1].value.name = "s2"
    /\ response = Response(200, <<characters[1].value>>)
    /\ update_character("u2", [id |-> "u1", name |-> "s2"]) = Answer(response)
    /\ Len(animes) = 1
    /\ create_anime(With(NominalAnime, "id", "u1"), "u2", << >>).response.status = 201
    /\ create_anime(With(NominalAnime, "id", "u1"), "u2", << >>).response.body[1].id = "u2"

\* the record holds a string under each of the fields
NonNull(record, Fields) == \A k \in Fields : record[k] \notin {None, Bad}

\* the error responses of a request the service does not carry out
Errors == {400, 404, 422, 500}

\* C11: every stored character and every character embedded in a stored
\* anime has a non-null name, role, gender and ability, and every stored
\* anime a non-null title, genre, seasons, status and streaming; a PATCH that
\* sets a required field to null and a create that omits gender are answered
\* with an error and leave the stores as they were.
C11_StoredRecordsValid ==
    /\ \A i \in 1..Len(characters) : NonNull(characters[i].value, CharacterRequired)
    /\ \A i \in 1..Len(animes) :
          /\ NonNull(animes[i].value, AnimeRequired)
          /\ \A j \in 1..Len(animes[i].value.characters) :
                NonNull(animes[i].value.characters[j], CharacterRequired)
    /\ \A id \in Present(characters) :
          LET o == update_character(id, [name |-> None]) IN
          o.response.status \in Errors /\ Untouched(o)
    /\ \A id \in Present(animes) :
          LET o == update_anime(id, [title |-> None], << >>) IN
          o.response.status \in Errors /\ Untouched(o)
    /\ \A uuid \in UUID4(<< >>, DictKeys(characters)) :
          LET o == create_character(Without(NominalCharacter, "gender"), uuid) IN
          o.response.status \in Errors /\ Untouched(o)

\* a PATCH /animes whose characters list holds a character without gender
\* has been answered 200, and the anime stores that character with a null
\* gender
C11_Witness ==
    /\ Len(animes) = 1
    /\ Len(animes[1].value.characters) = 1
    /\ animes[1].value.characters[1].gender = None
    /\ animes[1].value.title = "s1"
    /\ response = Response(200, <<animes[1].value>>)
    /\ Len(characters) = 1

====
